---- MODULE Spec2Model ----
(***************************************************************************)
(* Family Calendar for the Makerfabs ESP32-S3 7" display                    *)
(* (src/esp32/src/main.cpp): the event store and its ICS ingestion, the    *)
(* day query, the day-view layout, the touch navigation and the main loop. *)
(*                                                                         *)
(* Strings are sequences of one-character strings; the Arduino String      *)
(* methods keep their 0-based indices.  Instants are seconds since         *)
(* 1970-01-01T00:00:00Z; local time is UTC plus a fixed offset.            *)
(***************************************************************************)
EXTENDS Integers, Sequences, FiniteSets, TLC

(***************************************************************************)
(* Program constants                                                       *)
(***************************************************************************)
SCREEN_W == 1024
SCREEN_H == 600

\* configTime(TIMEZONE_OFFSET, DAYLIGHT_OFFSET, ...): the offset of local
\* time from UTC in seconds (secrets.h; Central European Time here).
TIMEZONE_OFFSET == 3600

VIEW_DAY == "VIEW_DAY"
VIEW_WEEK == "VIEW_WEEK"
VIEW_MONTH == "VIEW_MONTH"
ViewMode == {VIEW_DAY, VIEW_WEEK, VIEW_MONTH}

(***************************************************************************)
(* Arduino String                                                          *)
(***************************************************************************)
\* isspace() of the C locale
isspace(c) == c \in {" ", "\t", "\n", "\r", "\f"}

\* String::indexOf(char, fromIndex): 0-based index of the first ch at or
\* after from, -1 when there is none
RECURSIVE indexOf(_, _, _)
indexOf(s, ch, from) ==
    IF from >= Len(s) THEN -1
    ELSE IF s[from + 1] = ch THEN from
    ELSE indexOf(s, ch, from + 1)

\* String::substring(left, right): the characters left .. right-1
substring(s, left, right) ==
    LET l == IF left > right THEN right ELSE left
        r0 == IF left > right THEN left ELSE right
        r == IF r0 > Len(s) THEN Len(s) ELSE r0
    IN IF l >= Len(s) THEN <<>> ELSE SubSeq(s, l + 1, r)

\* String::trim(): leading and trailing white space removed
RECURSIVE trimLeft(_)
trimLeft(s) ==
    IF s # <<>> /\ isspace(Head(s)) THEN trimLeft(Tail(s)) ELSE s

RECURSIVE trimRight(_)
trimRight(s) ==
    IF s # <<>> /\ isspace(s[Len(s)])
    THEN trimRight(SubSeq(s, 1, Len(s) - 1)) ELSE s

trim(s) == trimRight(trimLeft(s))

\* String::startsWith(prefix)
startsWith(s, prefix) ==
    /\ Len(prefix) <= Len(s)
    /\ SubSeq(s, 1, Len(prefix)) = prefix

\* String::indexOf(String): 0-based index of the first occurrence, or -1
RECURSIVE indexOfStr(_, _, _)
indexOfStr(s, find, from) ==
    IF from + Len(find) > Len(s) THEN -1
    ELSE IF SubSeq(s, from + 1, from + Len(find)) = find THEN from
    ELSE indexOfStr(s, find, from + 1)

\* String::replace(find, with): every occurrence, left to right
RECURSIVE replace(_, _, _)
replace(s, find, with) ==
    LET i == indexOfStr(s, find, 0)
    IN IF find = <<>> \/ i < 0 THEN s
       ELSE SubSeq(s, 1, i) \o with
            \o replace(SubSeq(s, i + Len(find) + 1, Len(s)), find, with)

Digits == <<"0", "1", "2", "3", "4", "5", "6", "7", "8", "9">>
isdigit(c) == \E d \in 1..10 : Digits[d] = c
digitValue(c) == (CHOOSE d \in 1..10 : Digits[d] = c) - 1

\* String::toInt() (atol): optional white space and sign, then the leading
\* digits; 0 when there are none
RECURSIVE atolDigits(_, _)
atolDigits(s, acc) ==
    IF s # <<>> /\ isdigit(Head(s))
    THEN atolDigits(Tail(s), acc * 10 + digitValue(Head(s)))
    ELSE acc

toInt(s) ==
    LET t == trimLeft(s)
    IN IF t # <<>> /\ Head(t) = "-" THEN 0 - atolDigits(Tail(t), 0)
       ELSE IF t # <<>> /\ Head(t) = "+" THEN atolDigits(Tail(t), 0)
       ELSE atolDigits(t, 0)

(***************************************************************************)
(* struct tm, mktime and localtime_r under a fixed UTC offset               *)
(***************************************************************************)
\* days from 1970-01-01 to the civil date y-m-d (m in 1..12), proleptic
\* Gregorian calendar
DaysFromCivil(y, m, d) ==
    LET yy == IF m <= 2 THEN y - 1 ELSE y
        era == yy \div 400
        yoe == yy - era * 400
        mp == IF m > 2 THEN m - 3 ELSE m + 9
        doy == (153 * mp + 2) \div 5 + d - 1
        doe == yoe * 365 + yoe \div 4 - yoe \div 100 + doy
    IN era * 146097 + doe - 719468

\* the civil date of day number z
CivilFromDays(z) ==
    LET zz == z + 719468
        era == zz \div 146097
        doe == zz - era * 146097
        yoe == (doe - doe \div 1460 + doe \div 36524 - doe \div 146096) \div 365
        doy == doe - (365 * yoe + yoe \div 4 - yoe \div 100)
        mp == (5 * doy + 2) \div 153
        d == doy - (153 * mp + 2) \div 5 + 1
        m == IF mp < 10 THEN mp + 3 ELSE mp - 9
        y == yoe + era * 400 + (IF m <= 2 THEN 1 ELSE 0)
    IN [year |-> y, month |-> m, day |-> d]

\* struct tm = {0}
ZeroTm ==
    [tm_year |-> 0, tm_mon |-> 0, tm_mday |-> 0,
     tm_hour |-> 0, tm_min |-> 0, tm_sec |-> 0, tm_wday |-> 0]

\* mktime(&t): the instant of the local broken-down time t, whose fields
\* may be out of range (month 12, day 0, ...).  The days before 1904-04-16
\* (day -24000), which the program meets only as the result of a date it
\* could not read and only compares with instants of this century, all
\* stand for that day, so that the instants stay within 32 bits.
mktime(t) ==
    LET y == t.tm_year + 1900 + t.tm_mon \div 12
        m == t.tm_mon % 12
        days0 == DaysFromCivil(y, m + 1, 1) + t.tm_mday - 1
        days == IF days0 < -24000 THEN -24000 ELSE days0
    IN days * 86400 + t.tm_hour * 3600 + t.tm_min * 60 + t.tm_sec
       - TIMEZONE_OFFSET

\* localtime_r(&t, &tm): the local broken-down time of instant t
localtime_r(t) ==
    LET lt == t + TIMEZONE_OFFSET
        days == lt \div 86400
        rem == lt % 86400
        c == CivilFromDays(days)
    IN [tm_year |-> c.year - 1900, tm_mon |-> c.month - 1, tm_mday |-> c.day,
        tm_hour |-> rem \div 3600, tm_min |-> (rem % 3600) \div 60,
        tm_sec |-> rem % 60, tm_wday |-> (days + 4) % 7]

\* mktime(&t) used for its side effect: t is normalised in place
normalizeTm(t) == localtime_r(mktime(t))

\* void addDays(struct tm* date, int days)
addDays(date, days) == localtime_r(mktime(date) + days * 86400)

\* int getWeekday(struct tm* date): 0 = Monday .. 6 = Sunday
getWeekday(date) == (date.tm_wday + 6) % 7

\* void getWeekStart(struct tm* date, struct tm* weekStart)
getWeekStart(date) == addDays(date, 0 - getWeekday(date))

(***************************************************************************)
(* ICS parser                                                              *)
(***************************************************************************)
S_BEGIN_VEVENT == <<"B", "E", "G", "I", "N", ":", "V", "E", "V", "E", "N", "T">>
S_END_VEVENT == <<"E", "N", "D", ":", "V", "E", "V", "E", "N", "T">>
S_SUMMARY == <<"S", "U", "M", "M", "A", "R", "Y">>
S_DTSTART == <<"D", "T", "S", "T", "A", "R", "T">>
S_DTEND == <<"D", "T", "E", "N", "D">>
S_VALUE_DATE == <<"V", "A", "L", "U", "E", "=", "D", "A", "T", "E">>

\* void parseICSLine(String& line, String& key, String& value): key and
\* value stay empty when the line has no colon after its first character
parseICSLine(line) ==
    LET colonPos == indexOf(line, ":", 0)
    IN IF colonPos > 0
       THEN [key |-> trim(substring(line, 0, colonPos)),
             value |-> trim(substring(line, colonPos + 1, Len(line)))]
       ELSE [key |-> <<>>, value |-> <<>>]

\* time_t parseICSDateTime(String& dtStr):
\* YYYYMMDDTHHMMSS, YYYYMMDDTHHMMSSZ or YYYYMMDD, read as local time
parseICSDateTime(dtStr) ==
    LET hasDate == Len(dtStr) >= 8
        hasTime == hasDate /\ Len(dtStr) >= 15 /\ dtStr[9] = "T"
        t == [tm_year |-> IF hasDate THEN toInt(substring(dtStr, 0, 4)) - 1900 ELSE 0,
              tm_mon |-> IF hasDate THEN toInt(substring(dtStr, 4, 6)) - 1 ELSE 0,
              tm_mday |-> IF hasDate THEN toInt(substring(dtStr, 6, 8)) ELSE 0,
              tm_hour |-> IF hasTime THEN toInt(substring(dtStr, 9, 11)) ELSE 0,
              tm_min |-> IF hasTime THEN toInt(substring(dtStr, 11, 13)) ELSE 0,
              tm_sec |-> IF hasTime THEN toInt(substring(dtStr, 13, 15)) ELSE 0,
              tm_wday |-> 0]
    IN mktime(t)

\* fetchCalendar, lines 237-245: the continuation lines (a line break
\* followed by a space or a tab) appended to line, which is trimmed after
\* every append
RECURSIVE foldLine(_, _, _)
foldLine(payload, line, lineEnd) ==
    IF /\ lineEnd + 1 < Len(payload)
       /\ payload[lineEnd + 2] \in {" ", "\t"}
    THEN LET found == indexOf(payload, "\n", lineEnd + 1)
             nextEnd == IF found < 0 THEN Len(payload) ELSE found
         IN foldLine(payload,
                     trim(line \o substring(payload, lineEnd + 2, nextEnd)),
                     nextEnd)
    ELSE [line |-> line, lineEnd |-> lineEnd]

\* a variant of retained that tests the start of the event against both
\* ends of the window; it drops the events that straddle now - 30 days
retainedByStart(inEvent, evt, now) ==
    LET windowStart == now - 30 * 86400
        windowEnd == now + 60 * 86400
    IN /\ inEvent /\ Len(evt.title) > 0 /\ evt.start > 0
       /\ evt.start > windowStart /\ evt.start < windowEnd

\* fetchCalendar, lines 254-267: END:VEVENT keeps the open event when it
\* has a title and a start and meets the window of the last 30 days to the
\* next 60 days
retained(inEvent, evt, now) ==
    LET windowStart == now - 30 * 86400
        windowEnd == now + 60 * 86400
    IN /\ inEvent /\ Len(evt.title) > 0 /\ evt.start > 0
       /\ evt.end > windowStart /\ evt.start < windowEnd

\* fetchCalendar, lines 268-289: a property line of the open event
propertyLine(evt, line) ==
    LET kv == parseICSLine(line)
        key == kv.key
        value == kv.value
    IN IF key = S_SUMMARY
       THEN [evt EXCEPT !.title =
                replace(replace(replace(replace(value,
                    <<"\\", ",">>, <<",">>),
                    <<"\\", ";">>, <<";">>),
                    <<"\\", "n">>, <<" ">>),
                    <<"\\", "N">>, <<" ">>)]
       ELSE IF startsWith(key, S_DTSTART)
       THEN [evt EXCEPT !.start = parseICSDateTime(value),
                        !.allDay = IF indexOfStr(key, S_VALUE_DATE, 0) > 0
                                      \/ Len(value) = 8
                                   THEN TRUE ELSE evt.allDay]
       ELSE IF startsWith(key, S_DTEND)
       THEN [evt EXCEPT !.end = parseICSDateTime(value)]
       ELSE evt

\* fetchCalendar, lines 229-292: the loop over the lines of the payload,
\* from lineStart on; evs are the events pushed so far
RECURSIVE parseLines(_, _, _, _, _, _)
parseLines(payload, lineStart, inEvent, evt, evs, now) ==
    IF lineStart >= Len(payload) THEN evs
    ELSE
      LET found == indexOf(payload, "\n", lineStart)
          lineEnd0 == IF found < 0 THEN Len(payload) ELSE found
          folded == foldLine(payload,
                             trim(substring(payload, lineStart, lineEnd0)),
                             lineEnd0)
          line == folded.line
          next == folded.lineEnd + 1
      IN IF startsWith(line, S_BEGIN_VEVENT)
         THEN parseLines(payload, next, TRUE,
                         [evt EXCEPT !.title = <<>>, !.start = 0, !.end = 0,
                                     !.allDay = FALSE],
                         evs, now)
         ELSE IF startsWith(line, S_END_VEVENT)
         THEN parseLines(payload, next, FALSE, evt,
                         IF retained(inEvent, evt, now)
                         THEN Append(evs, evt) ELSE evs,
                         now)
         ELSE IF inEvent
         THEN parseLines(payload, next, inEvent, propertyLine(evt, line),
                         evs, now)
         ELSE parseLines(payload, next, inEvent, evt, evs, now)

\* fetchCalendar, lines 219-294: the events a 200 response's payload adds
parsePayload(calId, payload, now) ==
    parseLines(payload, 0, FALSE,
               [title |-> <<>>, start |-> 0, end |-> 0,
                calendarId |-> calId, allDay |-> FALSE],
               <<>>, now)

(***************************************************************************)
(* Event store                                                             *)
(***************************************************************************)
\* the indices of the events with the least start among those of S
leastStart(evs, S) == {i \in S : \A j \in S : evs[i].start <= evs[j].start}

\* std::sort(events.begin(), events.end(), a.start < b.start), lines
\* 319-321: the events ordered by start.  std::sort is not a stable sort:
\* the order in which it leaves events of equal start is unspecified, so
\* every order of them is an outcome.
RECURSIVE sortedOrders(_, _)
sortedOrders(evs, S) ==
    IF S = {} THEN {<<>>}
    ELSE UNION {{<<evs[i]>> \o rest : rest \in sortedOrders(evs, S \ {i})} :
                i \in leastStart(evs, S)}

stdSort(evs) == sortedOrders(evs, DOMAIN evs)

\* std::vector<CalendarEvent*> getEventsForDay(struct tm* date): the
\* indices into evs of the events of the day, in the order of the store
dayStartOf(date) ==
    mktime([date EXCEPT !.tm_hour = 0, !.tm_min = 0, !.tm_sec = 0])

\* a variant of onDay with the bounds of the day included
onDayInclusive(evt, tDayStart, tDayEnd) ==
    evt.start <= tDayEnd /\ evt.end >= tDayStart

\* getEventsForDay, line 341: the test of one event
onDay(evt, tDayStart, tDayEnd) == evt.start < tDayEnd /\ evt.end > tDayStart

RECURSIVE selectIndices(_, _, _, _)
selectIndices(evs, i, tDayStart, tDayEnd) ==
    IF i > Len(evs) THEN <<>>
    ELSE (IF onDay(evs[i], tDayStart, tDayEnd) THEN <<i>> ELSE <<>>)
         \o selectIndices(evs, i + 1, tDayStart, tDayEnd)

getEventsForDay(evs, date) ==
    LET tDayStart == dayStartOf(date)
        tDayEnd == tDayStart + 86400
    IN selectIndices(evs, 1, tDayStart, tDayEnd)

(***************************************************************************)
(* Day view                                                                *)
(***************************************************************************)
max(a, b) == IF a > b THEN a ELSE b
min(a, b) == IF a < b THEN a ELSE b

\* drawDayView, lines 494-533: the rectangle lcd.fillRoundRect draws for
\* timed event evs[i], or no rectangle when its start hour is outside 6..22
dayBox(evs, i, timeStartY, slotH) ==
    LET evt == evs[i]
        evtTime == localtime_r(evt.start)
        evtEndTime == localtime_r(evt.end)
        startHour == evtTime.tm_hour
        startMin == evtTime.tm_min
        endHour == evtEndTime.tm_hour
        endMin == evtEndTime.tm_min
        y1a == timeStartY + (startHour - 6) * slotH + (startMin * slotH) \div 60
        y2 == timeStartY + (endHour - 6) * slotH + (endMin * slotH) \div 60
        h0 == max(y2 - y1a, 22)
        y1 == IF y1a < timeStartY THEN timeStartY ELSE y1a
        h == IF y1 + h0 > SCREEN_H - 45 THEN SCREEN_H - 45 - y1 ELSE h0
    IN IF startHour >= 6 /\ startHour <= 22
       THEN <<[event |-> i, x |-> 80, y |-> y1, w |-> SCREEN_W - 100, h |-> h]>>
       ELSE <<>>

RECURSIVE dayBoxes(_, _, _, _, _)
dayBoxes(evs, dayEvents, k, timeStartY, slotH) ==
    IF k > Len(dayEvents) THEN <<>>
    ELSE (IF evs[dayEvents[k]].allDay THEN <<>>
          ELSE dayBox(evs, dayEvents[k], timeStartY, slotH))
         \o dayBoxes(evs, dayEvents, k + 1, timeStartY, slotH)

\* void drawDayView(): the rectangles of the timed events of the anchor day
drawDayView(evs, date) ==
    LET contentY == 70
        allDayH == 35
        dayEvents == getEventsForDay(evs, date)
        allDayCount == Cardinality({k \in DOMAIN dayEvents : evs[dayEvents[k]].allDay})
        timeStartY == IF allDayCount > 0 THEN contentY + allDayH ELSE contentY
        timeAreaH == SCREEN_H - 110 - (IF allDayCount > 0 THEN allDayH ELSE 0)
        slotH == timeAreaH \div 17
    IN dayBoxes(evs, dayEvents, 1, timeStartY, slotH)

\* void drawWeekView(), lines 542-600: for each day of the week of date
\* the area of its column in which the event bars are drawn
drawWeekView(date) ==
    LET contentY == 70
        contentH == SCREEN_H - 110
        colW == (SCREEN_W - 60) \div 7
        headerH == 40
        weekStart == getWeekStart(date)
    IN [k \in 1..7 |->
        [day |-> addDays(weekStart, k - 1),
         x |-> 60 + (k - 1) * colW, y |-> contentY + headerH + 5,
         w |-> colW - 2, h |-> contentH - headerH - 10]]

\* void drawMonthView(), lines 627-714: the cell lcd.fillRect draws for
\* each day of the month of date
drawMonthView(date) ==
    LET contentY == 70
        contentH == SCREEN_H - 110
        cellW == SCREEN_W \div 7
        headerH == 30
        cellH == (contentH - headerH) \div 6
        firstDay == normalizeTm([date EXCEPT !.tm_mday = 1, !.tm_hour = 12])
        startDow == getWeekday(firstDay)
        nextMonth == normalizeTm([firstDay EXCEPT !.tm_mon = @ + 1])
        daysInMonth == (mktime(nextMonth) - mktime(firstDay)) \div 86400
    IN [n \in 1..daysInMonth |->
        LET week == (n - 1 + startDow) \div 7
            dow == (n - 1 + startDow) % 7
        IN [day |-> normalizeTm([firstDay EXCEPT !.tm_mday = n]),
            x |-> dow * cellW, y |-> contentY + headerH + week * cellH,
            w |-> cellW - 1, h |-> cellH - 1]]

\* void draw(): what the screen shows afterwards
draw(evs, view, date) ==
    [view |-> view, date |-> date, pass |-> "none",
     boxes |-> IF view = VIEW_DAY THEN drawDayView(evs, date) ELSE <<>>,
     cells |-> CASE view = VIEW_DAY -> <<>>
                 [] view = VIEW_WEEK -> drawWeekView(date)
                 [] view = VIEW_MONTH -> drawMonthView(date)]

(***************************************************************************)
(* Touch navigation                                                        *)
(***************************************************************************)
\* int division of C: the quotient truncated toward zero
cdiv(a, b) == IF a >= 0 THEN a \div b ELSE 0 - ((0 - a) \div b)

\* a variant of navPrev whose VIEW_WEEK case lacks its break and falls
\* through to the VIEW_MONTH case
navPrevFallThrough(view, date) ==
    CASE view = VIEW_DAY -> addDays(date, -1)
      [] view = VIEW_WEEK ->
            normalizeTm([addDays(date, -7) EXCEPT !.tm_mon = @ - 1])
      [] view = VIEW_MONTH -> normalizeTm([date EXCEPT !.tm_mon = @ - 1])

\* handleTouch, lines 756-767: the left arrow
navPrev(view, date) ==
    CASE view = VIEW_DAY -> addDays(date, -1)
      [] view = VIEW_WEEK -> addDays(date, -7)
      [] view = VIEW_MONTH -> normalizeTm([date EXCEPT !.tm_mon = @ - 1])

\* handleTouch, lines 772-783: the right arrow
navNext(view, date) ==
    CASE view = VIEW_DAY -> addDays(date, 1)
      [] view = VIEW_WEEK -> addDays(date, 7)
      [] view = VIEW_MONTH -> normalizeTm([date EXCEPT !.tm_mon = @ + 1])

\* handleTouch, lines 787-799: the view mode buttons; btnX = x - (SCREEN_W - 280)
modeButton(view, btnX) ==
    IF btnX < 80 THEN VIEW_DAY
    ELSE IF btnX < 170 THEN VIEW_WEEK
    ELSE IF btnX < 260 THEN VIEW_MONTH
    ELSE view

\* handleTouch, lines 802-831: a tap on a day of the month view
monthTap(view, date, x, y) ==
    LET cellW == SCREEN_W \div 7
        headerH == 30
        cellH == (SCREEN_H - 180) \div 6
        col == cdiv(x, cellW)
        row == cdiv(y - 100 - headerH, cellH)
        firstDay == normalizeTm([date EXCEPT !.tm_mday = 1])
        startDow == getWeekday(firstDay)
        dayNum == row * 7 + col - startDow + 1
        nextMonth == normalizeTm([firstDay EXCEPT !.tm_mon = @ + 1])
        daysInMonth == cdiv(mktime(nextMonth) - mktime(firstDay), 86400)
    IN IF /\ col >= 0 /\ col < 7 /\ row >= 0 /\ row < 6
          /\ dayNum >= 1 /\ dayNum <= daysInMonth
       THEN [view |-> VIEW_DAY,
             date |-> normalizeTm([date EXCEPT !.tm_mday = dayNum]),
             redraw |-> TRUE]
       ELSE [view |-> view, date |-> date, redraw |-> FALSE]

\* handleTouch, lines 833-845: a tap on a day column of the week view
weekTap(view, date, x) ==
    LET colW == (SCREEN_W - 60) \div 7
        col == cdiv(x - 60, colW)
    IN IF col >= 0 /\ col < 7
       THEN [view |-> VIEW_DAY, date |-> addDays(getWeekStart(date), col),
             redraw |-> TRUE]
       ELSE [view |-> view, date |-> date, redraw |-> FALSE]

\* a variant of handleTouch whose view mode buttons switch the mode without
\* setting needsRedraw
handleTouchModeNoRedraw(view, date, x, y) ==
    IF y < 60
    THEN IF x < 60
         THEN [view |-> view, date |-> navPrev(view, date), redraw |-> TRUE]
         ELSE IF x > SCREEN_W - 60
         THEN [view |-> view, date |-> navNext(view, date), redraw |-> TRUE]
         ELSE IF x > SCREEN_W - 280
         THEN [view |-> modeButton(view, x - (SCREEN_W - 280)), date |-> date,
               redraw |-> FALSE]
         ELSE [view |-> view, date |-> date, redraw |-> FALSE]
    ELSE IF view = VIEW_MONTH /\ y > 100 /\ y < SCREEN_H - 45
    THEN monthTap(view, date, x, y)
    ELSE IF view = VIEW_WEEK /\ y > 110
    THEN weekTap(view, date, x)
    ELSE [view |-> view, date |-> date, redraw |-> FALSE]

\* void handleTouch(), lines 750-846: an accepted touch at (x, y); redraw
\* tells whether needsRedraw is set
handleTouch(view, date, x, y) ==
    IF y < 60
    THEN IF x < 60
         THEN [view |-> view, date |-> navPrev(view, date), redraw |-> TRUE]
         ELSE IF x > SCREEN_W - 60
         THEN [view |-> view, date |-> navNext(view, date), redraw |-> TRUE]
         ELSE IF x > SCREEN_W - 280
         THEN [view |-> modeButton(view, x - (SCREEN_W - 280)), date |-> date,
               redraw |-> x - (SCREEN_W - 280) < 260]
         ELSE [view |-> view, date |-> date, redraw |-> FALSE]
    ELSE IF view = VIEW_MONTH /\ y > 100 /\ y < SCREEN_H - 45
    THEN monthTap(view, date, x, y)
    ELSE IF view = VIEW_WEEK /\ y > 110
    THEN weekTap(view, date, x)
    ELSE [view |-> view, date |-> date, redraw |-> FALSE]

\* drawHeader, lines 380-398: the rectangle of the button of each view mode
buttonRect(view) ==
    LET btnStart == SCREEN_W - 280
        k == CASE view = VIEW_DAY -> 0 [] view = VIEW_WEEK -> 1
               [] view = VIEW_MONTH -> 2
    IN [x |-> btnStart + 90 * k, y |-> 8, w |-> 80, h |-> 40]

\* drawHeader, lines 359-360: where the text of each arrow is drawn
arrowAt(glyph) ==
    [x |-> IF glyph = "<" THEN 20 ELSE SCREEN_W - 40, y |-> 18]

(***************************************************************************)
(* Environment: the clock, the four feeds and the touch panel              *)
(***************************************************************************)
\* how many refresh passes the main loop starts (the pass of setup() is
\* not counted)
MaxRefreshes == 1
\* how many days the anchor date may move away from the day of startup
NavRange == 3
\* the same, for the runs in which every feed answers and no refresh is due
NavRangeWide == 35

\* REFRESH_INTERVAL = 5 * 60 * 1000 ms, in seconds: the clock has advanced
\* by at least this much when the loop starts a refresh pass
REFRESH_SECONDS == (5 * 60 * 1000) \div 1000

\* the local time of startup: Friday 2025-01-31 08:30:00
StartupTm ==
    [tm_year |-> 125, tm_mon |-> 0, tm_mday |-> 31,
     tm_hour |-> 8, tm_min |-> 30, tm_sec |-> 0, tm_wday |-> 5]
Now0 == mktime(StartupTm)
Midnight0 == Now0 - 8 * 3600 - 30 * 60

pad2(n) == <<Digits[(n \div 10) + 1], Digits[(n % 10) + 1]>>
icsDate(t) ==
    LET tm == localtime_r(t)
    IN pad2((tm.tm_year + 1900) \div 100) \o pad2((tm.tm_year + 1900) % 100)
       \o pad2(tm.tm_mon + 1) \o pad2(tm.tm_mday)
icsDateTime(t) ==
    LET tm == localtime_r(t)
    IN icsDate(t) \o <<"T">> \o pad2(tm.tm_hour) \o pad2(tm.tm_min)
       \o pad2(tm.tm_sec)

S_VCAL_BEGIN == <<"B", "E", "G", "I", "N", ":", "V", "C", "A", "L", "E", "N", "D", "A", "R">>
S_VCAL_END == <<"E", "N", "D", ":", "V", "C", "A", "L", "E", "N", "D", "A", "R">>
S_DATE_PARAM == <<";", "V", "A", "L", "U", "E", "=", "D", "A", "T", "E">>

\* the text of one VEVENT of a feed.  kind: "timed" (DTSTART and DTEND with
\* a time), "date" (VALUE=DATE values), "noend" (no DTEND line), "notitle"
\* (no SUMMARY line)
vevent(d, eol) ==
    LET dt(t) == IF d.kind = "date"
                 THEN S_DATE_PARAM \o <<":">> \o icsDate(t)
                 ELSE <<":">> \o icsDateTime(t)
    IN S_BEGIN_VEVENT \o eol
       \o S_DTSTART \o dt(d.start) \o eol
       \o (IF d.kind = "noend" THEN <<>> ELSE S_DTEND \o dt(d.end) \o eol)
       \o (IF d.kind = "notitle" THEN <<>>
           ELSE S_SUMMARY \o <<":">> \o d.title \o eol)
       \o S_END_VEVENT \o eol

RECURSIVE vevents(_, _)
vevents(ds, eol) ==
    IF ds = <<>> THEN <<>> ELSE vevent(Head(ds), eol) \o vevents(Tail(ds), eol)

icsText(ds, eol) == S_VCAL_BEGIN \o eol \o vevents(ds, eol) \o S_VCAL_END \o eol

Ev(title, start, end, kind) ==
    [title |-> <<title>>, start |-> start, end |-> end, kind |-> kind]

HOUR == 60 * 60
DAY == 86400
CRLF == <<"\r", "\n">>
LF == <<"\n">>

\* The responses the server of each feed may give: no response (-1), an
\* error status, or 200 with an ICS text.  descs lists the VEVENTs of the
\* text.
Catalogue ==
    [r404 |-> [code |-> 404, descs |-> <<>>, eol |-> LF],
     rNone |-> [code |-> -1, descs |-> <<>>, eol |-> LF],
     \* 09:00-10:00 today; yesterday 22:00 to midnight; DTEND before DTSTART
     work1 |-> [code |-> 200, eol |-> CRLF, descs |->
                <<Ev("A", Midnight0 + 9 * HOUR, Midnight0 + 10 * HOUR, "timed"),
                  Ev("C", Midnight0 - 2 * HOUR, Midnight0, "timed"),
                  Ev("R", Midnight0 + 10 * HOUR, Midnight0 + 9 * HOUR, "timed")>>],
     \* 09:30-10:30 today; 40 days ago; ending 100 s after now - 30 days
     work2 |-> [code |-> 200, eol |-> LF, descs |->
                <<Ev("B", Midnight0 + 9 * HOUR + 1800, Midnight0 + 10 * HOUR + 1800, "timed"),
                  Ev("O", Now0 - 40 * DAY, Now0 - 40 * DAY + HOUR, "timed"),
                  Ev("L", Now0 - 30 * DAY - HOUR, Now0 - 30 * DAY + 100, "timed")>>],
     \* 09:00-11:00 today; midnight to 01:00 today; no DTEND
     home1 |-> [code |-> 200, eol |-> CRLF, descs |->
                <<Ev("T", Midnight0 + 9 * HOUR, Midnight0 + 11 * HOUR, "timed"),
                  Ev("D", Midnight0, Midnight0 + HOUR, "timed"),
                  Ev("N", Midnight0 + 11 * HOUR, 0, "noend")>>],
     \* all day today; 61 days ahead; across now + 60 days
     work3 |-> [code |-> 200, eol |-> LF, descs |->
                <<Ev("Y", Midnight0, Midnight0 + DAY, "date"),
                  Ev("F", Now0 + 61 * DAY, Now0 + 61 * DAY + HOUR, "timed"),
                  Ev("H", Now0 + 60 * DAY - HOUR, Now0 + 60 * DAY + HOUR, "timed")>>],
     \* no SUMMARY; 23:00 today to 00:30 tomorrow
     home2 |-> [code |-> 200, eol |-> LF, descs |->
                <<Ev("U", Midnight0 + 12 * HOUR, Midnight0 + 13 * HOUR, "notitle"),
                  Ev("Z", Midnight0 + 23 * HOUR, Midnight0 + DAY + 1800, "timed")>>]]

\* the responses feed calId may give: the servers of feeds 0 and 1 may fail
\* (status 404, no response), those of feeds 2 and 3 answer 200
Responses(calId) ==
    CASE calId = 0 -> {"r404", "work1", "work2"}
      [] calId = 1 -> {"rNone", "home1"}
      [] calId = 2 -> {"work3"}
      [] calId = 3 -> {"home2"}

\* the responses of a network in which every server answers 200
ResponsesUp(calId) == {r \in Responses(calId) : Catalogue[r].code = 200}

\* the readings of time(nullptr)
Clocks == {Now0 + k * REFRESH_SECONDS : k \in 0..MaxRefreshes}

\* what fetchCalendar(calId, url) appends to the store when the server
\* answers with response r at time now
Fetched ==
    [calId \in 0..3, r \in DOMAIN Catalogue, now \in Clocks |->
        IF r \in Responses(calId) /\ Catalogue[r].code = 200
        THEN parsePayload(calId, icsText(Catalogue[r].descs, Catalogue[r].eol), now)
        ELSE <<>>]

\* void fetchCalendar(uint8_t calId, const char* icsUrl)
fetchCalendar(evs, calId, r, now) == evs \o Fetched[calId, r, now]

\* the positions lcd.getTouch reports in this model: the header (y < 60)
\* at the arrows, at the edges of the three buttons and between them, and
\* the content area
HeaderXs == {30, 59, 60, 400, 744, 745, 780, 823, 824, 870, 913, 914, 950, 964, 965, 1000}
Touches ==
    {[kind |-> "touch", x |-> x, y |-> 30] : x \in HeaderXs}
    \cup {[kind |-> "touch", x |-> x, y |-> y] : x \in {30, 500, 1020}, y \in {105, 300}}
\* no touch, or a touch within 300 ms of the last one (debounced)
TouchInputs ==
    Touches \cup {[kind |-> "none", x |-> 0, y |-> 0],
                  [kind |-> "bounce", x |-> 0, y |-> 0]}

dayNumber(date) == DaysFromCivil(date.tm_year + 1900, date.tm_mon + 1, date.tm_mday)
inRange(date, range) ==
    /\ dayNumber(date) - dayNumber(StartupTm) <= range
    /\ dayNumber(StartupTm) - dayNumber(date) <= range

(***************************************************************************)
(* The program: setup() and loop()                                         *)
(***************************************************************************)
VARIABLES
    events,        \* std::vector<CalendarEvent> events
    currentView,   \* ViewMode currentView
    viewDate,      \* struct tm viewDate
    needsRedraw,   \* bool needsRedraw
    screen,        \* what the last draw() put on the display
    pc,            \* the statement the program is at
    nextCal,       \* the calId fetchAllCalendars passes to fetchCalendar next
    caller,        \* who called fetchAllCalendars: "setup" or "loop"
    clock,         \* time(nullptr)
    pass,          \* "open" from events.clear() to the end of the sort,
                   \* "returned" right after it, else "none"
    before,        \* the store as it stood when the pass began
    served,        \* the responses the feeds gave in the pass
    ingested       \* the store of the pass before the final sort

vars == <<events, currentView, viewDate, needsRedraw, screen, pc, nextCal,
          caller, clock, pass, before, served, ingested>>

Init ==
    /\ events = <<>>
    /\ currentView = VIEW_WEEK
    /\ viewDate = ZeroTm
    /\ needsRedraw = TRUE
    /\ screen = [view |-> "none", date |-> ZeroTm, boxes |-> <<>>, cells |-> <<>>,
                 pass |-> "none"]
    /\ pc = "setup"
    /\ nextCal = 0
    /\ caller = "setup"
    /\ clock = Now0
    /\ pass = "none"
    /\ before = <<>>
    /\ served = <<>>
    /\ ingested = <<>>

\* setup(), lines 852-876: initTime() sets viewDate to today, then the
\* first fetchAllCalendars()
Setup ==
    /\ pc = "setup"
    /\ viewDate' = localtime_r(clock)
    /\ pc' = "clear"
    /\ caller' = "setup"
    /\ UNCHANGED <<events, currentView, needsRedraw, screen, nextCal, clock,
                   pass, before, served, ingested>>

\* fetchAllCalendars(), line 303: events.clear()
FetchClear ==
    /\ pc = "clear"
    /\ events' = <<>>
    /\ pass' = "open"
    /\ before' = events
    /\ served' = <<>>
    /\ ingested' = <<>>
    /\ nextCal' = 0
    /\ pc' = "fetch"
    /\ UNCHANGED <<currentView, viewDate, needsRedraw, screen, caller, clock>>

\* fetchAllCalendars(), lines 310-316: fetchCalendar(calId, url) for
\* nextCal = 0, 1, 2, 3
FetchFeedFrom(offered) ==
    /\ pc = "fetch"
    /\ \E r \in offered[nextCal] :
        /\ events' = IF Catalogue[r].code = 200
                     THEN fetchCalendar(events, nextCal, r, clock)
                     ELSE events
        /\ served' = Append(served, r)
    /\ nextCal' = IF nextCal < 3 THEN nextCal + 1 ELSE nextCal
    /\ pc' = IF nextCal < 3 THEN "fetch" ELSE "sort"
    /\ UNCHANGED <<currentView, viewDate, needsRedraw, screen, caller, clock,
                   pass, before, ingested>>

\* a variant of FetchFeed in which the redraw runs between two feeds (for
\* instance from the yield() of line 311) instead of after the pass
FetchFeedDrawing ==
    /\ pc = "fetch"
    /\ \E r \in Responses(nextCal) :
        /\ events' = IF Catalogue[r].code = 200
                     THEN fetchCalendar(events, nextCal, r, clock)
                     ELSE events
        /\ served' = Append(served, r)
    /\ screen' = [draw(events', currentView, viewDate) EXCEPT !.pass = pass]
    /\ nextCal' = IF nextCal < 3 THEN nextCal + 1 ELSE nextCal
    /\ pc' = IF nextCal < 3 THEN "fetch" ELSE "sort"
    /\ UNCHANGED <<currentView, viewDate, needsRedraw, caller, clock,
                   pass, before, ingested>>

FetchFeed == FetchFeedFrom([c \in 0..3 |-> Responses(c)])
FetchFeedUp == FetchFeedFrom([c \in 0..3 |-> ResponsesUp(c)])

\* fetchAllCalendars(), lines 319-324, and the needsRedraw = true that
\* follows the call in setup() (line 879) and in loop() (line 893)
FetchSort ==
    /\ pc = "sort"
    /\ \E sorted \in stdSort(events) : events' = sorted
    /\ ingested' = events
    /\ pass' = "returned"
    /\ needsRedraw' = TRUE
    /\ pc' = IF caller = "setup" THEN "touch" ELSE "draw"
    /\ UNCHANGED <<currentView, viewDate, screen, nextCal, caller, clock,
                   before, served>>

\* loop(), line 887: handleTouch()
LoopTouchWithin(range) ==
    /\ pc = "touch"
    /\ \E in \in TouchInputs :
        LET r == IF in.kind = "touch"
                 THEN handleTouch(currentView, viewDate, in.x, in.y)
                 ELSE [view |-> currentView, date |-> viewDate, redraw |-> FALSE]
        IN /\ inRange(r.date, range)
           /\ currentView' = r.view
           /\ viewDate' = r.date
           /\ needsRedraw' = (needsRedraw \/ r.redraw)
    /\ pc' = "refresh"
    /\ pass' = "none"
    /\ before' = <<>>
    /\ UNCHANGED <<events, screen, nextCal, caller, clock, served, ingested>>

LoopTouch == LoopTouchWithin(NavRange)
LoopTouchWide == LoopTouchWithin(NavRangeWide)

\* loop(), lines 890-894: the periodic refresh; due tells whether
\* millis() - lastRefresh > REFRESH_INTERVAL
LoopRefreshUpTo(refreshes) ==
    /\ pc = "refresh"
    /\ \E due \in BOOLEAN :
        IF due /\ clock < Now0 + refreshes * REFRESH_SECONDS
        THEN /\ clock' = clock + REFRESH_SECONDS
             /\ caller' = "loop"
             /\ pc' = "clear"
        ELSE /\ pc' = "draw"
             /\ UNCHANGED <<clock, caller>>
    /\ UNCHANGED <<events, currentView, viewDate, needsRedraw, screen, nextCal,
                   pass, before, served, ingested>>

LoopRefresh == LoopRefreshUpTo(MaxRefreshes)
\* the first REFRESH_INTERVAL has not elapsed yet
LoopNoRefresh == LoopRefreshUpTo(0)

\* loop(), lines 897-899: draw() when needsRedraw
LoopDraw ==
    /\ pc = "draw"
    /\ IF needsRedraw
       THEN /\ screen' = [draw(events, currentView, viewDate) EXCEPT !.pass = pass]
            /\ needsRedraw' = FALSE
       ELSE UNCHANGED <<screen, needsRedraw>>
    /\ pc' = "minute"
    /\ pass' = "none"
    /\ before' = <<>>
    /\ UNCHANGED <<events, currentView, viewDate, nextCal, caller, clock,
                   served, ingested>>

\* loop(), lines 902-908: the time indicator of the day view is refreshed
\* every minute; minuteDue tells whether millis() - lastMinuteUpdate > 60000
LoopMinute ==
    /\ pc = "minute"
    /\ \E minuteDue \in BOOLEAN :
        needsRedraw' = (needsRedraw \/ (currentView = VIEW_DAY /\ minuteDue))
    /\ pc' = "touch"
    /\ UNCHANGED <<events, currentView, viewDate, screen, nextCal, caller,
                   clock, pass, before, served, ingested>>

Next ==
    \/ Setup
    \/ FetchClear
    \/ FetchFeed
    \/ FetchSort
    \/ LoopTouch
    \/ LoopRefresh
    \/ LoopDraw
    \/ LoopMinute

Spec == Init /\ [][Next]_vars

\* The program while every feed answers 200 and before the first periodic
\* refresh is due: the anchor date may move NavRangeWide days
NextNav ==
    \/ Setup
    \/ FetchClear
    \/ FetchFeedUp
    \/ FetchSort
    \/ LoopTouchWide
    \/ LoopNoRefresh
    \/ LoopDraw
    \/ LoopMinute

SpecNav == Init /\ [][NextNav]_vars


(***************************************************************************)
(* The program fed with ICS texts that exercise the parser and the day     *)
(* view: line forms, folding, date forms and times of day                  *)
(***************************************************************************)
RECURSIVE joinLines(_, _)
joinLines(ls, eol) ==
    IF ls = <<>> THEN <<>> ELSE Head(ls) \o eol \o joinLines(Tail(ls), eol)

\* the SUMMARY value of the texts
TeamSync == <<"T", "e", "a", "m", " ", "S", "y", "n", "c">>

L_SUMMARY == <<"S", "U", "M", "M", "A", "R", "Y", ":">> \o TeamSync
L_SUMMARY_LANG == <<"S", "U", "M", "M", "A", "R", "Y", ";", "L", "A", "N", "G", "U", "A", "G", "E", "=", "e", "n", ":">> \o TeamSync
\* the VEVENT lines for a start and an end given as DTSTART and DTEND lines
veventLines(summary, dtstart, dtend) ==
    <<S_BEGIN_VEVENT>> \o summary \o <<dtstart, dtend, S_END_VEVENT>>

\* DTSTART and DTEND lines with a time on the day of startup, hhmm given as
\* four characters
dtLine(key, day, hhmm) == key \o <<":">> \o day \o <<"T">> \o hhmm \o <<"0", "0">>
D0 == <<"2", "0", "2", "5", "0", "1", "3", "1">>
DPrev == <<"2", "0", "2", "5", "0", "1", "3", "0">>
timed(summary, from, to) ==
    veventLines(summary, dtLine(S_DTSTART, D0, from), dtLine(S_DTEND, D0, to))

\* the lines of the VEVENTs of the text of kind r.kind; r.pos is the
\* number of characters of the SUMMARY value on the base line of a folded
\* SUMMARY
icsLines(r) ==
    CASE r.kind = "plain" -> timed(<<L_SUMMARY>>, <<"1", "4", "0", "0">>, <<"1", "5", "0", "0">>)
      [] r.kind = "param" ->
            veventLines(<<L_SUMMARY_LANG>>,
                <<"D", "T", "S", "T", "A", "R", "T", ";", "T", "Z", "I", "D", "=", "E", "u", "r", "o", "p", "e", "/", "Z", "u", "r", "i", "c", "h", ":", "2", "0", "2", "5", "0", "1", "3", "1", "T", "1", "4", "0", "0", "0", "0">>,
                <<"D", "T", "E", "N", "D", ";", "T", "Z", "I", "D", "=", "E", "u", "r", "o", "p", "e", "/", "Z", "u", "r", "i", "c", "h", ":", "2", "0", "2", "5", "0", "1", "3", "1", "T", "1", "5", "0", "0", "0", "0">>)
      [] r.kind = "fold" ->
            timed(<<<<"S", "U", "M", "M", "A", "R", "Y", ":">> \o SubSeq(TeamSync, 1, r.pos),
                    <<" ">> \o SubSeq(TeamSync, r.pos + 1, Len(TeamSync))>>,
                  <<"1", "4", "0", "0">>, <<"1", "5", "0", "0">>)
      [] r.kind = "badkey" ->
            timed(<<L_SUMMARY, <<"X", "-", "F", "O", "O", ";", "B", "A", "R", "=", "1", ":", "b", "a", "z">>>>, <<"1", "4", "0", "0">>, <<"1", "5", "0", "0">>)
      [] r.kind = "nocolon" ->
            timed(<<L_SUMMARY, <<"t", "h", "i", "s", " ", "l", "i", "n", "e", " ", "h", "a", "s", " ", "n", "o", " ", "c", "o", "l", "o", "n">>>>, <<"1", "4", "0", "0">>, <<"1", "5", "0", "0">>)
      [] r.kind = "baddtend" ->
            veventLines(<<L_SUMMARY>>, dtLine(S_DTSTART, D0, <<"1", "4", "0", "0">>),
                        <<"D", "T", "E", "N", "D", ":", "t", "o", "m", "o", "r", "r", "o", "w">>)
      [] r.kind = "isodate" ->
            veventLines(<<L_SUMMARY>>, <<"D", "T", "S", "T", "A", "R", "T", ":", "2", "0", "2", "5", "-", "0", "1", "-", "3", "1">>,
                        dtLine(S_DTEND, D0, <<"1", "5", "0", "0">>))
      [] r.kind = "datetime" ->
            veventLines(<<L_SUMMARY>>,
                <<"D", "T", "S", "T", "A", "R", "T", ";", "V", "A", "L", "U", "E", "=", "D", "A", "T", "E", "-", "T", "I", "M", "E", ":", "2", "0", "2", "5", "0", "1", "3", "1", "T", "1", "4", "0", "0", "0", "0">>,
                <<"D", "T", "E", "N", "D", ";", "V", "A", "L", "U", "E", "=", "D", "A", "T", "E", "-", "T", "I", "M", "E", ":", "2", "0", "2", "5", "0", "1", "3", "1", "T", "1", "5", "0", "0", "0", "0">>)
      [] r.kind = "date" ->
            veventLines(<<L_SUMMARY>>, <<"D", "T", "S", "T", "A", "R", "T", ";", "V", "A", "L", "U", "E", "=", "D", "A", "T", "E", ":", "2", "0", "2", "5", "0", "1", "3", "1">>,
                        <<"D", "T", "E", "N", "D", ";", "V", "A", "L", "U", "E", "=", "D", "A", "T", "E", ":", "2", "0", "2", "5", "0", "2", "0", "1">>)
      [] r.kind = "date8" ->
            veventLines(<<L_SUMMARY>>, <<"D", "T", "S", "T", "A", "R", "T", ":", "2", "0", "2", "5", "0", "1", "3", "1">>, <<"D", "T", "E", "N", "D", ":", "2", "0", "2", "5", "0", "2", "0", "1">>)
      [] r.kind = "carry" ->
            veventLines(<<<<"S", "U", "M", "M", "A", "R", "Y", ":", "H", "o", "l", "i", "d", "a", "y">>>>, <<"D", "T", "S", "T", "A", "R", "T", ";", "V", "A", "L", "U", "E", "=", "D", "A", "T", "E", ":", "2", "0", "2", "5", "0", "1", "3", "0">>,
                        <<"D", "T", "E", "N", "D", ";", "V", "A", "L", "U", "E", "=", "D", "A", "T", "E", ":", "2", "0", "2", "5", "0", "1", "3", "1">>)
            \o timed(<<L_SUMMARY>>, <<"1", "4", "0", "0">>, <<"1", "5", "0", "0">>)
      [] r.kind = "zeronoon" -> timed(<<L_SUMMARY>>, <<"1", "2", "0", "0">>, <<"1", "2", "0", "0">>)
      [] r.kind = "zeromidnight" -> timed(<<L_SUMMARY>>, <<"0", "0", "0", "0">>, <<"0", "0", "0", "0">>)
      [] r.kind = "early" -> timed(<<L_SUMMARY>>, <<"0", "5", "0", "0">>, <<"0", "8", "0", "0">>)
      [] r.kind = "overnight" ->
            veventLines(<<L_SUMMARY>>, dtLine(S_DTSTART, DPrev, <<"2", "3", "0", "0">>),
                        dtLine(S_DTEND, D0, <<"0", "7", "0", "0">>))
      [] r.kind = "night" -> timed(<<L_SUMMARY>>, <<"0", "1", "0", "0">>, <<"0", "2", "0", "0">>)
      [] r.kind = "short" -> timed(<<L_SUMMARY>>, <<"1", "0", "0", "0">>, <<"1", "0", "0", "5">>)
      [] r.kind = "late" -> timed(<<L_SUMMARY>>, <<"2", "2", "4", "5">>, <<"2", "3", "1", "5">>)
      [] r.kind = "down" -> <<>>

IcsKinds ==
    {"plain", "param", "badkey", "nocolon", "baddtend", "isodate", "datetime",
     "date", "date8", "carry", "zeronoon", "zeromidnight", "early",
     "overnight", "night", "short", "late"}

icsEol(r) == IF r.eol = "CRLF" THEN CRLF ELSE LF

\* the body of the response: http.getString()
icsOf(r) ==
    joinLines(<<S_VCAL_BEGIN>> \o icsLines(r) \o <<S_VCAL_END>>, icsEol(r))

\* no response from the server
Down == [kind |-> "down", pos |-> 0, eol |-> "LF"]

IcsResponses ==
    {[kind |-> k, pos |-> 0, eol |-> e] : k \in IcsKinds, e \in {"LF", "CRLF"}}
    \cup {[kind |-> "fold", pos |-> p, eol |-> e] :
            p \in 1..(Len(TeamSync) - 1), e \in {"LF", "CRLF"}}

\* feed 0 serves any of the texts, feed 1 an all-day event of the day of
\* startup or nothing, feeds 2 and 3 nothing
IcsOffered ==
    [calId \in 0..3 |->
        CASE calId = 0 -> IcsResponses
          [] calId = 1 -> {Down, [kind |-> "date", pos |-> 0, eol |-> "LF"]}
          [] OTHER -> {Down}]

FetchedIcs ==
    [calId \in 0..3, r \in IcsResponses \cup {Down}, now \in Clocks |->
        IF r \in IcsOffered[calId] /\ r.kind # "down"
        THEN parsePayload(calId, icsOf(r), now) ELSE <<>>]

\* fetchAllCalendars(), lines 310-316, with these texts
FetchFeedIcs ==
    /\ pc = "fetch"
    /\ \E r \in IcsOffered[nextCal] :
        /\ events' = events \o FetchedIcs[nextCal, r, clock]
        /\ served' = Append(served, r)
    /\ nextCal' = IF nextCal < 3 THEN nextCal + 1 ELSE nextCal
    /\ pc' = IF nextCal < 3 THEN "fetch" ELSE "sort"
    /\ UNCHANGED <<currentView, viewDate, needsRedraw, screen, caller, clock,
                   pass, before, ingested>>

NextIcs ==
    \/ Setup
    \/ FetchClear
    \/ FetchFeedIcs
    \/ FetchSort
    \/ LoopTouch
    \/ LoopNoRefresh
    \/ LoopDraw
    \/ LoopMinute

SpecIcs == Init /\ [][NextIcs]_vars

(***************************************************************************)
(* Properties                                                              *)
(***************************************************************************)
Range(s) == {s[i] : i \in DOMAIN s}

\* a feed of the pass gave no response or a status other than 200
passFailed == \E c \in DOMAIN served : Catalogue[served[c]].code # 200

\* C1: when fetchAllCalendars returns from a pass in which a feed failed,
\* the store holds exactly the events it held before the pass: none was
\* lost and none was added.
C1_FailedPassKeepsStore ==
    (pass = "returned" /\ passFailed) => Range(events) = Range(before)

\* the days around the day of startup that are asked for, each at
\* midnight, in the morning and in its last second
QueryDays == 2
QueryDates ==
    {localtime_r(Midnight0 + k * DAY + s) :
        k \in (0 - QueryDays)..QueryDays, s \in {0, 8 * HOUR + 1800, DAY - 1}}

\* local midnight of the day of date, from the day count of the calendar
dayStart(date) ==
    DaysFromCivil(date.tm_year + 1900, date.tm_mon + 1, date.tm_mday) * DAY
    - TIMEZONE_OFFSET
dayEnd(date) == dayStart(date) + DAY

\* C2: for every event e of a published store and every date d,
\* getEventsForDay(d) contains e if and only if e.start < dayEnd(d) and
\* e.end > dayStart(d), dayStart(d) being local midnight of d and dayEnd(d)
\* 86400 seconds later.
C2_DayMembership ==
    pass = "returned" =>
        \A date \in QueryDates :
            LET dayEvents == getEventsForDay(events, date)
            IN \A i \in DOMAIN events :
                (i \in Range(dayEvents))
                <=> (events[i].start < dayEnd(date) /\ events[i].end > dayStart(date))

\* an event that ends exactly at midnight is on its day and not on the
\* next one, and an event that starts exactly at midnight is on that day
C2_MidnightWitness ==
    /\ pass = "returned"
    /\ \E i, j \in DOMAIN events :
        /\ events[i].end = Midnight0
        /\ i \notin Range(getEventsForDay(events, StartupTm))
        /\ i \in Range(getEventsForDay(events, localtime_r(Midnight0 - DAY)))
        /\ events[j].start = Midnight0 /\ ~events[j].allDay
        /\ j \in Range(getEventsForDay(events, StartupTm))
        /\ j \notin Range(getEventsForDay(events, localtime_r(Midnight0 - DAY)))

\* C3: a pass of fetchAllCalendars is open exactly from events.clear() to
\* the end of the sort, a new pass starts only when none is open, and
\* draw() never runs while a pass is open: what is on the screen was drawn
\* from a store whose pass had returned.
C3_NoDrawInsidePass ==
    /\ (pass = "open") <=> (pc \in {"fetch", "sort"})
    /\ pc \in {"clear", "draw"} => pass # "open"
    /\ screen.pass # "open"

\* the screen was drawn right after a refresh pass of the loop returned
C3_DrawAfterPassWitness ==
    /\ screen.pass = "returned"
    /\ screen.view = VIEW_DAY
    /\ Len(screen.boxes) > 0
    /\ pc = "minute"

\* C4: two rectangles of the day grid that share a column (the same x)
\* cover vertical intervals [y, y + h) that do not overlap.
C4_ColumnsDisjoint ==
    \A a, b \in DOMAIN screen.boxes :
        (a # b /\ screen.boxes[a].x = screen.boxes[b].x) =>
            \/ screen.boxes[a].y + screen.boxes[a].h <= screen.boxes[b].y
            \/ screen.boxes[b].y + screen.boxes[b].h <= screen.boxes[a].y

\* C5: every event of the store has start <= end.
C5_StartNotAfterEnd ==
    \A i \in DOMAIN events : events[i].start <= events[i].end

\* VEVENT d of the response of feed calId is in the store
stored(d, calId) ==
    \E i \in DOMAIN events :
        /\ events[i].title = d.title /\ events[i].calendarId = calId
        /\ events[i].start = d.start /\ events[i].end = d.end

\* C6: of the VEVENTs of the feeds that answered 200, those with a title
\* and a start > 0 are in the store after the pass if and only if
\* end > now - 30 days and start < now + 60 days, now being the clock of
\* the pass.
C6_RetentionWindow ==
    pass = "returned" =>
        \A c \in DOMAIN served :
            Catalogue[served[c]].code = 200 =>
                \A k \in DOMAIN Catalogue[served[c]].descs :
                    LET d == Catalogue[served[c]].descs[k]
                    IN (d.kind # "notitle" /\ d.start > 0) =>
                        (stored(d, c - 1)
                         <=> (d.end > clock - 30 * DAY /\ d.start < clock + 60 * DAY))

\* a pass at the time of startup that was served an event wholly before
\* the window (O), one wholly after it (F), and one across each end of it
\* (L, H): the two across are stored, the two outside are not
C6_StraddleWitness ==
    /\ pass = "returned" /\ clock = Now0
    /\ Len(served) = 4 /\ served[1] = "work2" /\ served[3] = "work3"
    /\ \E i, j \in DOMAIN events :
        /\ events[i].title = <<"L">> /\ events[i].start < Now0 - 30 * DAY
        /\ events[j].title = <<"H">> /\ events[j].end > Now0 + 60 * DAY
    /\ \A i \in DOMAIN events : events[i].title \notin {<<"O">>, <<"F">>}

\* the place of event e in the store of the pass before the sort
ingestionIndex(e) == CHOOSE k \in DOMAIN ingested : ingested[k] = e

\* C7: when a pass has completed, the store is ordered by start ascending
\* and events of equal start are in the order of their ingestion.
C7_StableOrder ==
    pass = "returned" =>
        \A i, j \in DOMAIN events :
            i < j =>
                /\ events[i].start <= events[j].start
                /\ events[i].start = events[j].start =>
                       ingestionIndex(events[i]) < ingestionIndex(events[j])

\* a point inside each arrow of the header
PrevX == arrowAt("<").x + 5
NextX == arrowAt(">").x + 5
ArrowY == arrowAt("<").y + 12
Prev(view, date) == handleTouch(view, date, PrevX, ArrowY)
Next_(view, date) == handleTouch(view, date, NextX, ArrowY)

daysInMonth(year, mon) ==
    DaysFromCivil(IF mon = 12 THEN year + 1 ELSE year,
                  IF mon = 12 THEN 1 ELSE mon + 1, 1)
    - DaysFromCivil(year, mon, 1)

\* the date k = -1 or 1 calendar months from date, the day of the month
\* kept where the target month has it and else the last day of that month
monthShift(date, k) ==
    LET m0 == date.tm_mon + k
        year == date.tm_year + 1900
                + (IF m0 < 0 THEN -1 ELSE IF m0 > 11 THEN 1 ELSE 0)
        mon == ((m0 + 12) % 12) + 1
    IN <<year, mon, min(date.tm_mday, daysInMonth(year, mon))>>

ymd(date) == <<date.tm_year + 1900, date.tm_mon + 1, date.tm_mday>>

\* C8: the left and the right arrow leave the mode as it is and move the
\* anchor date by 1 day in day mode, by 7 days in week mode, and in month
\* mode by one calendar month with the day of the month kept or, where the
\* target month lacks it, set to the last day of the target month.
C8_PrevNextStep ==
    pc = "touch" =>
        LET p == Prev(currentView, viewDate)
            n == Next_(currentView, viewDate)
        IN /\ p.view = currentView /\ n.view = currentView
           /\ currentView = VIEW_DAY =>
                /\ dayNumber(p.date) = dayNumber(viewDate) - 1
                /\ dayNumber(n.date) = dayNumber(viewDate) + 1
           /\ currentView = VIEW_WEEK =>
                /\ dayNumber(p.date) = dayNumber(viewDate) - 7
                /\ dayNumber(n.date) = dayNumber(viewDate) + 7
           /\ currentView = VIEW_MONTH =>
                /\ ymd(p.date) = monthShift(viewDate, -1)
                /\ ymd(n.date) = monthShift(viewDate, 1)

\* C9: in week mode the left arrow followed by the right arrow, and the
\* right arrow followed by the left arrow, each move the anchor by 7 days
\* and together bring back exactly the anchor date they started from, the
\* mode still being week.
C9_WeekRoundTrip ==
    (pc = "touch" /\ currentView = VIEW_WEEK) =>
        LET p == Prev(VIEW_WEEK, viewDate)
            pn == Next_(p.view, p.date)
            n == Next_(VIEW_WEEK, viewDate)
            np == Prev(n.view, n.date)
        IN /\ dayNumber(p.date) = dayNumber(viewDate) - 7
           /\ dayNumber(n.date) = dayNumber(viewDate) + 7
           /\ pn.view = VIEW_WEEK /\ pn.date = viewDate
           /\ np.view = VIEW_WEEK /\ np.date = viewDate

\* week mode after the left arrow moved the anchor: the screen still shows
\* the week of the former anchor, in another month, and the right arrow
\* leads back to it
C9_ArrowActedWitness ==
    /\ pc = "refresh" /\ currentView = VIEW_WEEK /\ screen.view = VIEW_WEEK
    /\ dayNumber(viewDate) = dayNumber(screen.date) - 7
    /\ viewDate.tm_mon # screen.date.tm_mon
    /\ viewDate.tm_year # screen.date.tm_year
    /\ Next_(currentView, viewDate).date = screen.date

\* the pixels of the button of view mode m in the row y = 30 of the header
ButtonXs(m) ==
    {x \in HeaderXs : x >= buttonRect(m).x /\ x < buttonRect(m).x + buttonRect(m).w}

\* C10: a touch on the Day, Week or Month button of the header sets the
\* mode to that of the button and leaves the anchor date and the store as
\* they are, from every mode and every anchor date.
C10_SwitchMode ==
    [][pc = "touch" =>
        \A m \in ViewMode : \A x \in ButtonXs(m) :
            /\ handleTouch(currentView, viewDate, x, ArrowY).view = m
            /\ handleTouch(currentView, viewDate, x, ArrowY).date = viewDate
            /\ events' = events]_vars

\* the corners and the centre of a drawn rectangle
CellPoints(c) ==
    {[x |-> x, y |-> y] : x \in {c.x, c.x + c.w \div 2, c.x + c.w - 1},
                          y \in {c.y, c.y + c.h \div 2, c.y + c.h - 1}}

\* C11: while the screen shows the month or the week of the anchor date, a
\* tap at a point of the cell or column drawn for a day sets the mode to
\* day and the anchor to that day.
C11_TapHitsDrawnCell ==
    (pc = "touch" /\ screen.view = currentView /\ screen.date = viewDate) =>
        \A k \in DOMAIN screen.cells :
            \A pt \in CellPoints(screen.cells[k]) :
                LET r == handleTouch(currentView, viewDate, pt.x, pt.y)
                IN r.view = VIEW_DAY /\ ymd(r.date) = ymd(screen.cells[k].day)

\* the event of feed 0 with the given title, start and end is in the store
storedFromFeed0(title, start, end) ==
    \E i \in DOMAIN events :
        /\ events[i].calendarId = 0 /\ events[i].title = title
        /\ events[i].start = start /\ events[i].end = end

\* the pass has returned and the server of feed 0 answered with a text of
\* one of the kinds
feed0Served(kinds) ==
    pass = "returned" /\ Len(served) = 4 /\ served[1].kind \in kinds

\* C12: a VEVENT whose lines are SUMMARY;LANGUAGE=en:Team Sync,
\* DTSTART;TZID=...:20250131T140000 and DTEND;TZID=...:20250131T150000 is
\* stored with the title "Team Sync" and these times, as it is without the
\* parameters.
C12_KeyWithParameters ==
    feed0Served({"plain", "param"}) =>
        storedFromFeed0(TeamSync, Midnight0 + 14 * HOUR, Midnight0 + 15 * HOUR)

\* C13: a SUMMARY whose value is split at any position into a base line and
\* one continuation line, with LF or CRLF line ends, gives the title of
\* the unfolded SUMMARY.
C13_FoldedSummary ==
    feed0Served({"plain", "fold"}) =>
        storedFromFeed0(TeamSync, Midnight0 + 14 * HOUR, Midnight0 + 15 * HOUR)

\* C14: a VEVENT with a line of an unknown key, a line without a colon or a
\* DTEND whose value is no date is stored with its title and its start.
C14_TolerantPerLine ==
    feed0Served({"badkey", "nocolon", "baddtend"}) =>
        \E i \in DOMAIN events :
            /\ events[i].calendarId = 0 /\ events[i].title = TeamSync
            /\ events[i].start = Midnight0 + 14 * HOUR

\* C15: a stored event is an all-day event exactly when its DTSTART had the
\* parameter VALUE=DATE or a value of 8 characters: not with
\* VALUE=DATE-TIME or TZID, and not because the VEVENT before it was one.
C15_AllDayFlag ==
    (pass = "returned" /\ Len(served) = 4) =>
        \A i \in DOMAIN events :
            events[i].calendarId = 0 =>
                (events[i].allDay
                 <=> \/ served[1].kind \in {"date", "date8"}
                     \/ served[1].kind = "carry" /\ events[i].title # TeamSync)

\* C16: a stored event with end = start is among the events of the local
\* date of its start.
C16_ZeroDurationOnItsDay ==
    pass = "returned" =>
        \A i \in DOMAIN events :
            events[i].end = events[i].start =>
                i \in Range(getEventsForDay(events, localtime_r(events[i].start)))

\* C17: in the day view just drawn, a timed event of the day has a
\* rectangle exactly when its interval meets the hours 06:00 to 23:00 of
\* the day.
C17_DrawnIffInWindow ==
    (pc = "minute" /\ screen.view = VIEW_DAY /\ screen.date = viewDate) =>
        \A i \in Range(getEventsForDay(events, viewDate)) :
            ~events[i].allDay =>
                ((\E k \in DOMAIN screen.boxes : screen.boxes[k].event = i)
                 <=> /\ events[i].start < dayStart(viewDate) + 23 * HOUR
                     /\ events[i].end > dayStart(viewDate) + 6 * HOUR)

\* C18: every rectangle of the day view is at least 22 pixels high.
C18_MinimumHeight ==
    \A k \in DOMAIN screen.boxes : screen.boxes[k].h >= 22

\* what draw() would put on the screen now
shown == [draw(events, currentView, viewDate) EXCEPT !.pass = screen.pass]

\* C19: a navigation command or a refresh pass of a loop iteration is drawn
\* in that iteration. When the iteration reaches its draw step with a mode,
\* an anchor or a finished pass the screen does not show, needsRedraw is
\* set; after the draw step the screen shows the mode, the anchor and the
\* events and needsRedraw is clear; and when the next touch is read the
\* screen still shows the mode and the anchor (before the first draw the
\* redraw is pending).
C19_RedrawBeforeNextTouch ==
    /\ pc = "draw" =>
          ((screen.view # currentView \/ screen.date # viewDate
            \/ pass = "returned") => needsRedraw)
    /\ pc = "minute" => (screen = shown /\ ~needsRedraw)
    /\ pc = "touch" =>
          IF screen.view = "none" THEN needsRedraw
          ELSE screen.view = currentView /\ screen.date = viewDate

\* a loop iteration with an accepted mode command and a refresh pass has
\* drawn the month view of the events of the pass
C19_CommandAndPassDrawnWitness ==
    /\ pc = "minute" /\ caller = "loop"
    /\ screen.pass = "returned" /\ screen.view = VIEW_MONTH
    /\ currentView = VIEW_MONTH /\ ~needsRedraw
    /\ events # <<>>
====
